---- MODULE Spec2Model ----
(***************************************************************************)
(* Offline outbox and synchronisation engine of service-worker.js.         *)
(*                                                                         *)
(* The durable state is the IndexedDB database: the object stores "outbox" *)
(* and "meta" and the key generator of the outbox.  The in-memory state is *)
(* the position and the locals of every asynchronous invocation in flight: *)
(* a flushQueue() called by the "sync" listener, a flushQueue() called by  *)
(* the message listener (FLUSH), and the message listener handling an      *)
(* ENQUEUE.  An action is the code that runs between two awaits on the     *)
(* database or the network.  The awaits of clients.matchAll() and          *)
(* res.json() touch no shared state, so a message is posted in the step    *)
(* that builds it; notifyStatus reads the count and lastSync in one step.  *)
(*                                                                         *)
(* History variables.  Every invocation keeps a log of what it did, in     *)
(* order: requests, responses, failures, deletes, meta writes and the      *)
(* type of every message it posted.  Three more say what the step just     *)
(* taken did: out holds the messages, whole, that it posted to the         *)
(* observers, settled the response whose branch it ran, and fin the        *)
(* invocation that ended in it, as it was when it ended; each is empty     *)
(* after a step that did no such thing.  An invocation of flushQueue also  *)
(* keeps, as gen, the last key assigned when it read its snapshot.         *)
(* A restart of the worker leaves every invocation idle.                   *)
(*                                                                         *)
(* The fields params and createdAt of a stored operation are written and   *)
(* never read by a decision of the code; the model leaves them out.  The   *)
(* INIT and GET_STATUS branches of the message listener write nothing to   *)
(* the database and start nothing; they are not modelled.                  *)
(***************************************************************************)
EXTENDS Integers, Sequences, FiniteSets, TLC

\* ------------------------------------------------------------------ bounds
MaxOps == 2        \* operations that are ever added to the outbox

\* --------------------------------------------------------------- constants
NoValue == -1      \* null: metaGet of a key that was never written
NoKey == 0         \* no key: the keys of an autoIncrement store start at 1

Drains == {"sync", "flush"}

Times == {0, 1}    \* the values Date.now() returns

InfoNone == "Keine ausstehenden Eintraege"
InfoBegin == "Synchronisiere"
InfoFinal == "Synchronisierung abgeschlossen"
InfoAbsent == ""   \* notifyStatus() without extra

Apis == {"valid", "invalid"}   \* payload.api: new URL(api) succeeds or throws
Bodies == {"ok_true", "already_marked", "other", "undecodable"}
\* res.ok and the body: every body with a success status, and a non-success
\* status with a body that says ok and with one that does not decode
Responses == [ok : {TRUE}, body : Bodies] \cup
             [ok : {FALSE}, body : {"ok_true", "undecodable"}]
NoResponse == [ok |-> FALSE, body |-> "none"]

VARIABLES
  outbox,          \* object store "outbox": key -> stored operation
  keyGen,          \* key generator of the outbox: the last key it assigned
  meta,            \* object store "meta": the value under "lastSync"
  now,             \* the last value Date.now() returned
  drain,           \* the two invocations of flushQueue
  enq,             \* the message listener handling ENQUEUE
  responded,       \* history: keys whose request completed with a response
  out,             \* history: the messages the step just taken posted
  settled,         \* history: the response the step just taken settled
  fin              \* history: the invocation that ended in the step just taken

vars == <<outbox, keyGen, meta, now, drain, enq, responded, out, settled,
          fin>>

durable == <<outbox, keyGen, meta>>

\* ------------------------------------------------------------ durable store
Min(S) == CHOOSE x \in S : \A y \in S : x <= y

Item(ob, k) == [key |-> k, api |-> ob[k].api, tries |-> ob[k].tries]

RECURSIVE Cursor(_, _)
Cursor(ob, ks) ==
  IF ks = {} THEN <<>>
  ELSE LET k == Min(ks) IN <<Item(ob, k)>> \o Cursor(ob, ks \ {k})

Reverse(s) == [j \in 1..Len(s) |-> s[Len(s) + 1 - j]]

\* mutant: the cursor is opened in direction "prev"
OutboxAllPrev(ob) == Reverse(Cursor(ob, DOMAIN ob))

\* outboxAll: every stored operation, in key order
OutboxAll(ob) == Cursor(ob, DOMAIN ob)

\* outboxCount
OutboxCount(ob) == Cardinality(DOMAIN ob)

\* mutant: the next key is one more than the highest key stored
NextKeyFromStored(ob, gen) ==
  IF DOMAIN ob = {} THEN 1
  ELSE (CHOOSE x \in DOMAIN ob : \A y \in DOMAIN ob : y <= x) + 1

\* the key the generator hands to the next add
NextKey(ob, gen) == gen + 1

\* outboxAdd: st.add({...item, createdAt: Date.now(), tries: item.tries ?? 0})
OutboxAdd(ob, k, item) ==
  [x \in DOMAIN ob \cup {k} |->
     IF x = k THEN [api |-> item.api, tries |-> item.tries] ELSE ob[x]]

\* mutant: the delete takes the key as the lower bound of a key range
OutboxDeleteFrom(ob, k) == [x \in {y \in DOMAIN ob : y < k} |-> ob[x]]

\* outboxDelete: st.delete(key); a key that is not stored is not an error
OutboxDelete(ob, k) == [x \in DOMAIN ob \ {k} |-> ob[x]]

\* metaGet: the stored value, or null
MetaGet(m) == m

\* ----------------------------------------------------------------- messages
StatusMsg(pending, lastSync, info) ==
  [type |-> "QUEUE_STATUS", pending |-> pending, lastSync |-> lastSync,
   info |-> info]

\* mutant: the progress message counts the operations that remain
ProgressMsgRemaining(done, total) ==
  [type |-> "SYNC_PROGRESS", done |-> total - done, total |-> total]

ProgressMsg(done, total) ==
  [type |-> "SYNC_PROGRESS", done |-> done, total |-> total]

DoneMsg == [type |-> "SYNC_DONE"]

\* notifyStatus: the message it broadcasts
NotifyStatus(info) == StatusMsg(OutboxCount(outbox), MetaGet(meta), info)

NoOut == [by |-> "none", msgs |-> <<>>]

Posted(by, msgs) == [by |-> by, msgs |-> msgs]

\* the step posts msgs and settles no response
Says(by, msgs) == out' = Posted(by, msgs) /\ settled' = NoResponse

\* the step posts nothing and settles no response
Silent == out' = NoOut /\ settled' = NoResponse

\* what the log keeps of a message
Kind(msg) ==
  IF msg.type = "QUEUE_STATUS"
  THEN [type |-> msg.type, info |-> msg.info]
  ELSE msg

\* ---------------------------------------------------------- response decoding
\* res.json().catch(() => ({})): the decoded body, {} when it does not decode
Json(body) ==
  CASE body = "ok_true" -> [ok |-> TRUE, code |-> "none"]
    [] body = "already_marked" -> [ok |-> FALSE, code |-> "already_marked"]
    [] body = "other" -> [ok |-> FALSE, code |-> "invalid"]
    [] OTHER -> [ok |-> FALSE, code |-> "none"]

\* res.ok && data && (data.ok || data.code === "already_marked")
IsSuccess(res) ==
  LET data == Json(res.body)
  IN res.ok /\ (data.ok \/ data.code = "already_marked")

\* ------------------------------------------------------------------- initial
IdleDrain == [pc |-> "idle", items |-> <<>>, total |-> 0, done |-> 0, i |-> 0,
              res |-> NoResponse, info |-> InfoAbsent, gen |-> NoKey,
              log |-> <<>>]

IdleEnq == [pc |-> "idle", key |-> NoKey, error |-> FALSE, log |-> <<>>]

Init ==
  /\ outbox = <<>>
  /\ keyGen = 0
  /\ meta = NoValue
  /\ now = 0
  /\ drain = [d \in Drains |-> IdleDrain]
  /\ enq = IdleEnq
  /\ responded = {}
  /\ out = NoOut
  /\ settled = NoResponse
  /\ fin = {}

\* ---------------------------------------------------------------- flushQueue
\* the invocation d goes on as r
Goes(d, r) ==
  /\ drain' = [drain EXCEPT ![d] = r]
  /\ fin' = {}

\* the invocation d ends as r: flushQueue returned, or it rejected (the
\* message listener logs the error, the sync listener hands it to waitUntil)
Ends(d, r) ==
  /\ drain' = [drain EXCEPT ![d] = IdleDrain]
  /\ fin' = {[by |-> d, r |-> r]}

Step(d, r) == IF r.pc \in {"returned", "threw"} THEN Ends(d, r) ELSE Goes(d, r)

Threw(r) == [r EXCEPT !.pc = "threw"]

\* the catch block of the loop, in the log: what threw for the operation
Failure(k, what) == [type |-> "failure", key |-> k, what |-> what]

\* mutant: the endpoint is not parsed, the request is issued for any api
LoopFromAnyUrl(r, i) ==
  IF i > r.total THEN [r EXCEPT !.i = i, !.pc = "meta_set"]
  ELSE [r EXCEPT !.i = i, !.pc = "fetch",
                 !.log = Append(r.log, [type |-> "fetch", key |-> r.items[i].key])]

\* for (const item of items): the loop at position i. new URL(api) throws
\* for an unusable endpoint (caught: break), else the request is issued.
LoopFrom(r, i) ==
  IF i > r.total THEN [r EXCEPT !.i = i, !.pc = "meta_set"]
  ELSE IF r.items[i].api = "invalid"
  THEN [r EXCEPT !.i = i, !.pc = "meta_set",
                 !.log = Append(r.log, Failure(r.items[i].key, "url"))]
  ELSE [r EXCEPT !.i = i, !.pc = "fetch",
                 !.log = Append(r.log, [type |-> "fetch", key |-> r.items[i].key])]

\* mutant: the completion message is broadcast twice
ThenPostsTwice(info) == IF info = InfoFinal THEN <<DoneMsg, DoneMsg>> ELSE <<>>

\* the messages that follow the one of notifyStatus, by its call site
ThenPosts(info) == IF info = InfoFinal THEN <<DoneMsg>> ELSE <<>>

\* mutant: the empty-queue path does not return and falls through to the loop
AfterStatusFallsThrough(r) ==
  CASE r.info = InfoNone -> LoopFrom([r EXCEPT !.done = 0], 1)
    [] r.info = InfoBegin -> LoopFrom([r EXCEPT !.done = 0], 1)
    [] OTHER -> [r EXCEPT !.pc = "returned", !.log = Append(r.log, Kind(DoneMsg))]

\* what follows notifyStatus, by its call site
AfterStatus(r) ==
  CASE r.info = InfoNone -> [r EXCEPT !.pc = "returned"]
    [] r.info = InfoBegin -> LoopFrom([r EXCEPT !.done = 0], 1)
    [] OTHER -> [r EXCEPT !.pc = "returned", !.log = Append(r.log, Kind(DoneMsg))]

\* a listener calls flushQueue(): const items = await outboxAll()
FlushStart(d) ==
  /\ drain[d].pc = "idle"
  /\ \/ LET items == OutboxAll(outbox)
            total == Len(items)
        IN Goes(d, [IdleDrain EXCEPT !.pc = "status", !.items = items,
                                     !.total = total, !.gen = keyGen,
                                     !.info = IF total = 0 THEN InfoNone
                                              ELSE InfoBegin])
     \/ Ends(d, Threw(IdleDrain))
  /\ Silent
  /\ UNCHANGED <<durable, now, enq, responded>>

\* await notifyStatus({info}), and the code up to the next await on the
\* database or the network
Status(d) ==
  /\ drain[d].pc = "status"
  /\ \/ LET r == drain[d]
            msg == NotifyStatus(r.info)
        IN /\ Step(d, AfterStatus([r EXCEPT !.log = Append(r.log, Kind(msg))]))
           /\ Says(d, <<msg>> \o ThenPosts(r.info))
     \/ /\ Ends(d, Threw(drain[d]))
        /\ Silent
  /\ UNCHANGED <<durable, now, enq, responded>>

\* mutant: the catch block drops the operation whose request failed
FetchFailsDrops(d) ==
  /\ drain[d].pc = "fetch"
  /\ LET r == drain[d]
         k == r.items[r.i].key
     IN /\ Goes(d, [r EXCEPT !.pc = "meta_set",
                             !.log = Append(r.log, Failure(k, "fetch"))])
        /\ outbox' = OutboxDelete(outbox, k)
  /\ Silent
  /\ UNCHANGED <<keyGen, meta, now, enq, responded>>

\* await fetch(...) rejects: catch, break
FetchFails(d) ==
  /\ drain[d].pc = "fetch"
  /\ LET r == drain[d]
         k == r.items[r.i].key
     IN Goes(d, [r EXCEPT !.pc = "meta_set",
                          !.log = Append(r.log, Failure(k, "fetch"))])
  /\ Silent
  /\ UNCHANGED <<durable, now, enq, responded>>

\* await fetch(...) resolves with a response; const data = await res.json()
FetchResponds(d) ==
  /\ drain[d].pc = "fetch"
  /\ \E res \in Responses :
       LET r == drain[d]
           k == r.items[r.i].key
       IN /\ Goes(d, [r EXCEPT !.pc = "delete", !.res = res,
                        !.log = Append(r.log, [type |-> "response", key |-> k])])
          /\ responded' = responded \cup {k}
  /\ Silent
  /\ UNCHANGED <<durable, now, enq>>

\* await outboxDelete(key); done++; await notifyProgress(done, total); and
\* the next iteration up to its request.  A failed transaction: catch, break
DeleteAndCount(d) ==
  LET r == drain[d]
      k == r.items[r.i].key
      msg == ProgressMsg(r.done + 1, r.total)
  IN \/ /\ outbox' = OutboxDelete(outbox, k)
        /\ Goes(d, LoopFrom([r EXCEPT !.done = r.done + 1, !.res = NoResponse,
                                      !.log = r.log \o
                                        << [type |-> "delete", key |-> k],
                                           Kind(msg) >>],
                            r.i + 1))
        /\ out' = Posted(d, <<msg>>)
        /\ settled' = r.res
     \/ /\ Goes(d, [r EXCEPT !.pc = "meta_set", !.res = NoResponse,
                             !.log = Append(r.log, Failure(k, "delete"))])
        /\ Silent
        /\ UNCHANGED outbox

\* mutant: the success branch deletes and forgets done++ and the progress
SettleSuccessUncounted(d) ==
  /\ drain[d].pc = "delete"
  /\ IsSuccess(drain[d].res)
  /\ LET r == drain[d]
         k == r.items[r.i].key
     IN /\ outbox' = OutboxDelete(outbox, k)
        /\ Goes(d, LoopFrom([r EXCEPT !.res = NoResponse,
                                      !.log = Append(r.log,
                                         [type |-> "delete", key |-> k])],
                            r.i + 1))
        /\ out' = NoOut
        /\ settled' = r.res
  /\ UNCHANGED <<keyGen, meta, now, enq, responded>>

\* if (res.ok && data && (data.ok || data.code === "already_marked")) {...}
SettleSuccess(d) ==
  /\ drain[d].pc = "delete"
  /\ IsSuccess(drain[d].res)
  /\ DeleteAndCount(d)
  /\ UNCHANGED <<keyGen, meta, now, enq, responded>>

\* mutant: the else branch keeps the entry and leaves the loop
SettleRejectionHalts(d) ==
  /\ drain[d].pc = "delete"
  /\ ~IsSuccess(drain[d].res)
  /\ Goes(d, [drain[d] EXCEPT !.pc = "meta_set", !.res = NoResponse])
  /\ out' = NoOut
  /\ settled' = drain[d].res
  /\ UNCHANGED <<durable, now, enq, responded>>

\* else {...}: the entry is deleted so that the queue does not hang
SettleRejection(d) ==
  /\ drain[d].pc = "delete"
  /\ ~IsSuccess(drain[d].res)
  /\ DeleteAndCount(d)
  /\ UNCHANGED <<keyGen, meta, now, enq, responded>>

\* await metaSet("lastSync", Date.now())
MetaSet(d) ==
  /\ drain[d].pc = "meta_set"
  /\ \/ \E t \in {x \in Times : x >= now} :
          /\ now' = t
          /\ meta' = t
          /\ Goes(d, [drain[d] EXCEPT !.pc = "status", !.info = InfoFinal,
                        !.log = Append(drain[d].log,
                                       [type |-> "metaSet", value |-> t])])
     \/ /\ Ends(d, Threw(drain[d]))
        /\ UNCHANGED <<now, meta>>
  /\ Silent
  /\ UNCHANGED <<outbox, keyGen, enq, responded>>

\* ------------------------------------------------------------ message listener
\* the listener goes on as r, or returns as r
EnqStep(r) ==
  IF r.pc = "returned"
  THEN enq' = IdleEnq /\ fin' = {[by |-> "enqueue", r |-> r]}
  ELSE enq' = r /\ fin' = {}

\* catch (e) { console.error("SW message error:", e) }
Caught(r) == [r EXCEPT !.pc = "returned", !.error = TRUE]

\* type === "ENQUEUE": await outboxAdd({api, params, tries: 0})
Enqueue ==
  /\ enq.pc = "idle"
  /\ \/ /\ keyGen < MaxOps
        /\ \E api \in Apis :
             LET k == NextKey(outbox, keyGen)
                 item == [api |-> api, tries |-> 0]
             IN /\ outbox' = OutboxAdd(outbox, k, item)
                /\ keyGen' = k
                /\ EnqStep([IdleEnq EXCEPT !.pc = "status", !.key = k,
                              !.log = <<[type |-> "add", key |-> k]>>])
     \/ /\ EnqStep(Caught(IdleEnq))
        /\ UNCHANGED <<outbox, keyGen>>
  /\ Silent
  /\ UNCHANGED <<meta, now, drain, responded>>

\* ENQUEUE: await notifyStatus(); if ("sync" in self.registration)
EnqStatus ==
  /\ enq.pc = "status"
  /\ \/ \E hasSync \in BOOLEAN :
          LET msg == NotifyStatus(InfoAbsent)
          IN /\ EnqStep([enq EXCEPT
                           !.pc = IF hasSync THEN "register" ELSE "returned",
                           !.log = Append(enq.log, Kind(msg))])
             /\ Says("enqueue", <<msg>>)
     \/ /\ EnqStep(Caught(enq))
        /\ Silent
  /\ UNCHANGED <<durable, now, drain, responded>>

\* mutant: a rejected register() is not caught where it is awaited
EnqRegisterUncaught ==
  /\ enq.pc = "register"
  /\ \E registers \in BOOLEAN :
       LET r == [enq EXCEPT !.log = Append(enq.log,
                                [type |-> "register", ok |-> registers])]
       IN EnqStep(IF registers THEN [r EXCEPT !.pc = "returned"] ELSE Caught(r))
  /\ Silent
  /\ UNCHANGED <<durable, now, drain, responded>>

\* try { await self.registration.sync.register("sync-attendance") } catch {}
EnqRegister ==
  /\ enq.pc = "register"
  /\ \E registers \in BOOLEAN :
       EnqStep([enq EXCEPT !.pc = "returned",
                  !.log = Append(enq.log, [type |-> "register", ok |-> registers])])
  /\ Silent
  /\ UNCHANGED <<durable, now, drain, responded>>

\* ------------------------------------------------------------------- restart
\* mutant: opening the database at the start creates the stores anew
RestartRecreates ==
  /\ \/ \E d \in Drains : drain[d].pc # "idle"
     \/ enq.pc # "idle"
  /\ drain' = [d \in Drains |-> IdleDrain]
  /\ enq' = IdleEnq
  /\ outbox' = <<>>
  /\ keyGen' = 0
  /\ meta' = NoValue
  /\ Silent
  /\ fin' = {}
  /\ UNCHANGED <<now, responded>>

\* The browser stops the worker and starts it again: every invocation in
\* flight is gone, the database remains.
Restart ==
  /\ \/ \E d \in Drains : drain[d].pc # "idle"
     \/ enq.pc # "idle"
  /\ drain' = [d \in Drains |-> IdleDrain]
  /\ enq' = IdleEnq
  /\ Silent
  /\ fin' = {}
  /\ UNCHANGED <<durable, now, responded>>

Next ==
  \/ \E d \in Drains :
       \/ FlushStart(d)
       \/ Status(d)
       \/ FetchFails(d)
       \/ FetchResponds(d)
       \/ SettleSuccess(d)
       \/ SettleRejection(d)
       \/ MetaSet(d)
  \/ Enqueue
  \/ EnqStatus
  \/ EnqRegister
  \/ Restart

Spec == Init /\ [][Next]_vars

\* ------------------------------------------------------------------ liveness
\* what one invocation of flushQueue does, from its call to its end
DrainStep(d) ==
  \/ FlushStart(d)
  \/ Status(d)
  \/ FetchFails(d)
  \/ FetchResponds(d)
  \/ SettleSuccess(d)
  \/ SettleRejection(d)
  \/ MetaSet(d)

\* An awaited promise settles and the function that awaits it goes on; the
\* FLUSH message and the sync event keep arriving.
LiveSpec == Spec /\ \A d \in Drains : WF_vars(DrainStep(d))

\* ===================================================================== claims
\* the invocations of flushQueue to look at: those in flight and the one
\* that ended in the step just taken
Running == {drain[d] : d \in {x \in Drains : drain[x].pc # "idle"}}

Ended == {e.r : e \in {x \in fin : x.by \in Drains}}

Returned == {r \in Ended : r.pc = "returned"}

EnqEnded == {e.r : e \in {x \in fin : x.by = "enqueue"}}

\* the keys of the log's events of one type, in order
KeysOf(log, type) ==
  LET Is(e) == e.type = type
      sel == SelectSeq(log, Is)
  IN [p \in 1..Len(sel) |-> sel[p].key]

Snapshot(r) == [j \in 1..r.total |-> r.items[j].key]

IsPrefix(s, t) == Len(s) <= Len(t) /\ \A j \in 1..Len(s) : s[j] = t[j]

Has(log, e) == \E p \in 1..Len(log) : log[p] = e

Before(log, e, p) == \E q \in 1..(p - 1) : log[q] = e

\* the status message an invocation ended with, in the step just taken
FinalStatus == out.msgs[1]

\* ---- C1
InOrder(r) ==
  LET snap == Snapshot(r)
  IN /\ \A j \in 1..(Len(snap) - 1) : snap[j] < snap[j + 1]
     /\ IsPrefix(KeysOf(r.log, "fetch"), snap)
     /\ IsPrefix(KeysOf(r.log, "delete"), snap)
     /\ \A p \in 1..Len(r.log), j \in 2..Len(snap) :
          (r.log[p].type = "fetch" /\ r.log[p].key = snap[j]) =>
            \E q \in 1..(p - 1) :
              /\ r.log[q] = [type |-> "delete", key |-> snap[j - 1]]
              /\ Before(r.log, [type |-> "response", key |-> snap[j - 1]], q)

\* C1: within one drain the requests are issued in key order, which is the
\* order of the snapshot, and so are the deletes; the request for an
\* operation is issued only after the response for the one before it was
\* received and that one was deleted; and a drain that deleted every
\* operation of a snapshot that was the whole queue, with nothing enqueued
\* since, ends with a pending count of 0.
C1_ReplayInOrder ==
  /\ \A r \in Running \cup Ended : InOrder(r)
  /\ \A r \in Returned :
       (r.total > 0 /\ r.done = r.total /\ keyGen = r.items[r.total].key)
         => (FinalStatus.pending = 0 /\ OutboxCount(outbox) = 0)

\* a drain over a queue of two or more operations ended with all of them
\* requested and deleted
C1_Witness ==
  \E r \in Returned :
    /\ r.total >= 2
    /\ r.done = r.total
    /\ keyGen = r.items[r.total].key
    /\ KeysOf(r.log, "fetch") = Snapshot(r)
    /\ KeysOf(r.log, "delete") = Snapshot(r)

\* ---- C2
\* the position in the snapshot of the operation whose request failed
FailedAt(r) ==
  {j \in 1..r.total : Has(r.log, Failure(r.items[j].key, "fetch"))}

Progress(r) == {p \in 1..Len(r.log) : r.log[p].type = "SYNC_PROGRESS"}

\* C2: when the request for an operation fails at transport level, the drain
\* stops: when the drain ends, that operation and every later one of the
\* snapshot are still in the outbox, no request was issued for a later one
\* in this drain, and no progress message counts the failed operation.
C2_HaltKeepsRest ==
  \A r \in Ended : \A j \in FailedAt(r) :
    /\ \A n \in j..r.total : r.items[n].key \in DOMAIN outbox
    /\ \A n \in (j + 1)..r.total :
         ~Has(r.log, [type |-> "fetch", key |-> r.items[n].key])
    /\ r.done = j - 1
    /\ \A p \in Progress(r) : r.log[p].done < j

\* ---- C3
\* the keys that were added and are no longer stored
Removed == (1..keyGen) \ DOMAIN outbox

\* C3: in every reachable state, an operation that is no longer in the
\* outbox is one whose request completed with a response; one whose request
\* never completed is still stored.
C3_RemovedOnlyAfterResponse == \A k \in Removed : k \in responded

\* an operation is gone after its response, while a second one, enqueued
\* after the drain read its snapshot, is stored and was never answered
C3_Witness ==
  /\ Removed # {}
  /\ \E k \in DOMAIN outbox :
       /\ k \notin responded
       /\ \E r \in Running : \A j \in 1..r.total : r.items[j].key < k

\* ---- C4
Fetched(r) == {r.log[p].key : p \in {q \in 1..Len(r.log) : r.log[q].type = "fetch"}}

\* C4: when two drains run at the same time, the request for an operation
\* is issued by at most one of them.
C4_SingleFlight ==
  \A d1, d2 \in Drains :
    (d1 # d2 /\ drain[d1].pc # "idle" /\ drain[d2].pc # "idle")
      => Fetched(drain[d1]) \cap Fetched(drain[d2]) = {}

\* ---- C5
AllIdle == (\A d \in Drains : drain[d].pc = "idle") /\ enq.pc = "idle"

\* a step that discards the invocations in flight without ending them
Restarts == ~AllIdle /\ AllIdle' /\ fin' = {}

Listed(ob, k) == \E j \in 1..Len(OutboxAll(ob)) : OutboxAll(ob)[j].key = k

\* C5: at whatever point the worker restarts, every operation that was
\* added is returned by the list-all scan after the restart, as it was
\* stored, unless its request had completed and it was deleted.
C5_Durable ==
  [][Restarts =>
       \A k \in 1..keyGen :
         \/ k \notin DOMAIN outbox /\ k \in responded
         \/ /\ k \in DOMAIN outbox
            /\ Listed(outbox', k)
            /\ outbox'[k] = outbox[k]]_vars

\* after a restart, with an operation stored whose request never completed
C5_Witness ==
  /\ AllIdle
  /\ fin = {}
  /\ \E k \in DOMAIN outbox : k \notin responded /\ Listed(outbox, k)

\* ---- C6
\* C6: a failure to persist an enqueued operation is reported: the handling
\* of ENQUEUE does not end with the operation not stored and no message
\* posted to the observers.
C6_EnqueueFailureReported ==
  \A r \in EnqEnded : r.key = NoKey => out.msgs # <<>>

\* ---- C7
\* the handling of ENQUEUE that posted in the step just taken
EnqPosting == IF enq.pc = "idle" THEN EnqEnded ELSE {enq}

OkTrue == [ok |-> TRUE, body |-> "ok_true"]

AlreadyMarked == [ok |-> TRUE, body |-> "already_marked"]

\* what the step that settled the response of the operation at position
\* i - 1 left behind: the operation deleted, counted and reported, and the
\* loop at the next operation
SettledEffect(d) ==
  LET r == drain[d]
      k == r.items[r.i - 1].key
      n == Len(r.log)
      q == IF r.log[n].type = "SYNC_PROGRESS" THEN n ELSE n - 1
  IN /\ k \notin DOMAIN outbox
     /\ r.done = r.i - 1
     /\ out = Posted(d, <<ProgressMsg(r.done, r.total)>>)
     /\ r.log[q] = ProgressMsg(r.done, r.total)
     /\ r.log[q - 1] = [type |-> "delete", key |-> k]
     /\ Cardinality(Progress(r)) = r.done
     /\ IF r.i > r.total THEN r.pc = "meta_set" /\ q = n
        ELSE /\ q = n - 1
             /\ \/ r.pc = "fetch" /\
                   r.log[n] = [type |-> "fetch", key |-> r.items[r.i].key]
                \/ r.pc = "meta_set" /\
                   r.log[n] = Failure(r.items[r.i].key, "url")

\* C8: a response with a success status and the body {code: "already_marked"}
\* is settled as one with the body {ok: true} is: the operation is deleted,
\* done is incremented by one, one progress message is posted and the drain
\* goes on with the next operation.
C8_AlreadyMarkedAsOk ==
  settled \in {OkTrue, AlreadyMarked} =>
    \E d \in Drains : out.by = d /\ SettledEffect(d)

C8_Witness ==
  /\ settled = AlreadyMarked
  /\ \E d \in Drains : out.by = d /\ drain[d].pc = "fetch" /\ drain[d].done = 1

\* ---- C9
\* C9: a response that signals a logical failure (a non-success status, or
\* a body that is neither ok nor already_marked) or whose body does not
\* decode does not halt the drain: the operation is deleted, counted and
\* reported, and the next operation of the snapshot is attempted in the
\* same drain.
C9_RejectionGoesOn ==
  (settled # NoResponse /\ ~IsSuccess(settled)) =>
    \E d \in Drains : out.by = d /\ SettledEffect(d)

C9_Witness ==
  /\ settled = [ok |-> TRUE, body |-> "undecodable"]
  /\ \E d \in Drains :
       /\ out.by = d
       /\ drain[d].pc = "fetch"
       /\ drain[d].log[Len(drain[d].log)] =
            [type |-> "fetch", key |-> drain[d].items[2].key]

\* ---- C10
Last(log, n) == SubSeq(log, Len(log) - n + 1, Len(log))

\* C10: a drain that found a pending operation ends by recording the
\* current time as lastSync, then posting the final queue status, which
\* carries that lastSync and the pending count, then posting the completion
\* message.
C10_EndOfDrain ==
  \A r \in Returned :
    r.total > 0 =>
      /\ Len(r.log) >= 3
      /\ Last(r.log, 3)[1].type = "metaSet"
      /\ Last(r.log, 3)[2] = Kind(StatusMsg(0, NoValue, InfoFinal))
      /\ Last(r.log, 3)[3] = Kind(DoneMsg)
      /\ out.msgs = << StatusMsg(OutboxCount(outbox),
                                 Last(r.log, 3)[1].value, InfoFinal),
                       DoneMsg >>

\* ---- C11
\* C11: a drain that found no pending operation still records lastSync: it
\* does not return without having written the meta store.
C11_EmptyDrainUpdatesLastSync ==
  \A r \in Returned :
    r.total = 0 => \E p \in 1..Len(r.log) : r.log[p].type = "metaSet"

\* ---- C12
\* what a drain over an empty snapshot did when it returned: one queue
\* status with the nothing-to-do info and the count and lastSync read when
\* it was posted, no progress message, no request, no delete, no meta write
EmptyDrainEffect(r) ==
  /\ r.log = << Kind(StatusMsg(0, NoValue, InfoNone)) >>
  /\ r.done = 0
  /\ out.msgs = << StatusMsg(OutboxCount(outbox), MetaGet(meta), InfoNone) >>

Deleting(d) == drain[d].pc = "delete"

DeletingKey(d) == drain[d].items[drain[d].i].key

\* C13: a drain that removes a key no longer in the outbox (another drain
\* removed it) goes on as after any delete, without an error, and the
\* outbox, with its count and every stored operation, is as it was before;
\* so it is for the delete of any key that was assigned and is not stored.
C13_DoubleDeleteSafe ==
  [][ /\ \A k \in (1..keyGen) \ DOMAIN outbox :
           /\ OutboxDelete(outbox, k) = outbox
           /\ OutboxCount(OutboxDelete(outbox, k)) = OutboxCount(outbox)
      /\ \A d \in Drains :
           ( /\ Deleting(d)
             /\ DeletingKey(d) \notin DOMAIN outbox
             /\ settled' # NoResponse
             /\ out'.by = d )
           => /\ outbox' = outbox
              /\ OutboxCount(outbox') = OutboxCount(outbox)
              /\ drain'[d].done = drain[d].done + 1
              /\ drain'[d].log[Len(drain[d].log) + 1] =
                   [type |-> "delete", key |-> DeletingKey(d)] ]_vars

\* a drain deleted the key that the other drain, still running, had deleted
\* before, while a later operation is stored
C13_Witness ==
  \E d, e \in Drains :
    /\ d # e
    /\ out.by = d
    /\ settled # NoResponse
    /\ drain[d].i > 1
    /\ Has(drain[e].log, [type |-> "delete", key |-> drain[d].items[drain[d].i - 1].key])
    /\ DOMAIN outbox # {}

\* ---- C14
\* the positions of a sequence of messages that hold one of the type
OfType(msgs, type) == {p \in 1..Len(msgs) : msgs[p].type = type}

ProgressOf(log) ==
  LET Is(e) == e.type = "SYNC_PROGRESS" IN SelectSeq(log, Is)

ProgressInStep(r) ==
  LET prog == ProgressOf(r.log)
      dels == KeysOf(r.log, "delete")
  IN /\ \A n \in 1..Len(prog) :
          /\ prog[n] = [type |-> "SYNC_PROGRESS", done |-> n, total |-> r.total]
          /\ 1 <= prog[n].done /\ prog[n].done <= r.total
     /\ Len(prog) = Len(dels)
     /\ r.done = Len(dels)
     /\ r.done <= r.total
     /\ \A n \in 1..Len(dels) : dels[n] = r.items[n].key
     /\ \A p \in 1..Len(r.log) :
          /\ r.log[p].type = "delete" =>
               /\ p < Len(r.log)
               /\ r.log[p + 1].type = "SYNC_PROGRESS"
               /\ Before(r.log, [type |-> "response", key |-> r.log[p].key], p)
          /\ r.log[p].type = "SYNC_PROGRESS" =>
               p > 1 /\ r.log[p - 1].type = "delete"

\* C15: in one drain with a snapshot of size total, the n-th operation the
\* drain deleted is followed at once by the progress message (done = n,
\* total) and no progress message is posted otherwise: done goes up by one
\* per message, total is the size of the snapshot in every message,
\* 1 <= done <= total, and done is the number of operations the drain
\* deleted, each after its response.
C15_ProgressPerOperation ==
  /\ \A r \in Running \cup Ended : ProgressInStep(r)
  /\ OfType(out.msgs, "SYNC_PROGRESS") # {} =>
       /\ out.by \in Drains
       /\ settled # NoResponse
       /\ out.msgs = << [type |-> "SYNC_PROGRESS",
                         done |-> drain[out.by].done,
                         total |-> drain[out.by].total] >>
       /\ drain[out.by].done = Len(KeysOf(drain[out.by].log, "delete"))

\* the second of two operations was just deleted and reported
C15_Witness ==
  /\ out.by \in Drains
  /\ out.msgs = << [type |-> "SYNC_PROGRESS", done |-> 2, total |-> 2] >>
  /\ Len(ProgressOf(drain[out.by].log)) = 2

\* ---- C16
\* a step in which a request fails at transport level, a store transaction
\* fails, or the worker is stopped
Trouble ==
  \/ \E d \in Drains : FetchFails(d)
  \/ \E d \in Drains : drain[d].pc = "delete" /\ drain'[d].pc = "meta_set"
                       /\ settled' = NoResponse
  \/ \E e \in fin' : e.by \in Drains /\ e.r.pc = "threw"
  \/ Restarts

\* C16: if drains keep being started and from some point on every request
\* completes with a response (and no transaction fails and the worker is
\* not stopped), the outbox is emptied again and again: every operation
\* that was stored is removed and the pending count reaches 0.
C16_Recoverable ==
  <>[][~Trouble]_vars => []<>(OutboxCount(outbox) = 0)

\* ---- C17
\* the position in the snapshot of the operation whose delete failed
DeleteFailedAt(r) ==
  {j \in 1..r.total : Has(r.log, Failure(r.items[j].key, "delete"))}

\* what the drain itself did after the delete at position j failed: it
\* left the loop with the operation not counted, deleted nothing from
\* position j on and requested nothing after it
HaltedAt(r, j) ==
  /\ r.pc \in {"meta_set", "status", "returned", "threw"}
  /\ r.done = j - 1
  /\ \A p \in Progress(r) : r.log[p].done < j
  /\ \A n \in j..r.total :
       ~Has(r.log, [type |-> "delete", key |-> r.items[n].key])
  /\ \A n \in (j + 1)..r.total :
       ~Has(r.log, [type |-> "fetch", key |-> r.items[n].key])

\* C17: when the delete of an operation whose response was received fails,
\* the drain leaves the loop as after a transport failure: that operation
\* and every later one of the snapshot are still in the outbox when the
\* drain ends, no progress message counts it, and the drain goes on to
\* record lastSync and to post the final status and the completion message.
C17_DeleteFailureHalts ==
  /\ \A r \in Running \cup Ended : \A j \in DeleteFailedAt(r) : HaltedAt(r, j)
  /\ \A r \in Returned : \A j \in DeleteFailedAt(r) :
       /\ \A n \in j..r.total : r.items[n].key \in DOMAIN outbox
       /\ Last(r.log, 3)[1].type = "metaSet"
       /\ Last(r.log, 3)[2] = Kind(StatusMsg(0, NoValue, InfoFinal))
       /\ Last(r.log, 3)[3] = Kind(DoneMsg)

\* ---- C18
\* the step adds an operation to the outbox
Adds == enq.pc = "idle" /\ enq'.pc = "status"

\* the keys of list-all, in its order
ListedKeys(ob) == [j \in 1..Len(OutboxAll(ob)) |-> OutboxAll(ob)[j].key]

\* C18: every added operation gets a key greater than every key assigned
\* before, stored or deleted, so it is the last of list-all, whose order is
\* the order of the adds; and a delete removes no operation but the one the
\* drain read in its snapshot under that key, never one added since.
C18_KeysNeverReused ==
  [][ /\ Adds =>
           /\ enq'.key = keyGen'
           /\ keyGen' > keyGen
           /\ \A k \in DOMAIN outbox \cup responded : enq'.key > k
           /\ \A r \in Running : \A j \in 1..r.total : enq'.key > r.items[j].key
           /\ ListedKeys(outbox') = Append(ListedKeys(outbox), enq'.key)
      /\ \A d \in Drains :
           (Deleting(d) /\ settled' # NoResponse /\ out'.by = d) =>
             /\ DOMAIN outbox \ DOMAIN outbox' \subseteq {DeletingKey(d)}
             /\ DeletingKey(d) \in DOMAIN outbox =>
                  Item(outbox, DeletingKey(d)) = drain[d].items[drain[d].i]
      /\ \A k \in DOMAIN outbox : k <= keyGen ]_vars

\* an operation was added after deletes had emptied the outbox, while a
\* drain still holds the snapshot with the deleted key
C18_Witness ==
  /\ enq.pc = "status"
  /\ DOMAIN outbox = {enq.key}
  /\ enq.key > 1
  /\ \E r \in Running : r.total > 0 /\ r.items[1].key \notin DOMAIN outbox

\* ---- C19
\* the stored operations whose endpoint new URL() rejects
Unusable == {k \in DOMAIN outbox : outbox[k].api = "invalid"}

\* C19: an operation whose endpoint cannot be turned into a request stops
\* every drain that reaches it, as a transport failure does, without a
\* request for it: the drain leaves the loop and goes on to record lastSync;
\* the operation is never removed, and no operation added after it is ever
\* requested, answered or removed.
C19_HeadOfLineBlocking ==
  [][ \A k \in Unusable :
        /\ \A n \in k..keyGen :
             /\ n \in DOMAIN outbox
             /\ n \notin responded
             /\ n \in DOMAIN outbox' /\ outbox'[n] = outbox[n]
             /\ \A r \in Running \cup Ended :
                  ~Has(r.log, [type |-> "fetch", key |-> n])
        /\ \A r \in Running \cup Ended : \A j \in 1..r.total :
             (r.items[j].key = k /\ r.i >= j) =>
               /\ r.i = j
               /\ r.done = j - 1
               /\ Has(r.log, Failure(k, "url"))
               /\ r.pc \in {"meta_set", "status", "returned", "threw"}
               /\ r.pc = "returned" => r.log[Len(r.log)] = Kind(DoneMsg) ]_vars

\* a drain whose snapshot held an unusable operation and one added after it
\* ended with both still stored
C19_Witness ==
  \E r \in Returned :
    /\ r.total = 2
    /\ r.items[1].key \in Unusable
    /\ Has(r.log, Failure(r.items[1].key, "url"))
    /\ r.items[2].key \in DOMAIN outbox
    /\ r.items[2].key \notin responded

\* ---- C20
\* the keys assigned after the drain read its snapshot
AddedSince(r) == (r.gen + 1)..keyGen

\* C20: a drain works on the snapshot it read at its start: an operation
\* added while it runs is neither requested nor deleted by it, the total of
\* its progress messages stays the size of that snapshot, and when the
\* drain ends the operation is still in the outbox and the pending count of
\* the drain's last status counts it.
C20_SnapshotOnly ==
  /\ \A r \in Running \cup Ended :
       /\ \A k \in AddedSince(r) :
            /\ ~Has(r.log, [type |-> "fetch", key |-> k])
            /\ ~Has(r.log, [type |-> "delete", key |-> k])
       /\ r.total = Len(r.items)
       /\ \A p \in Progress(r) : r.log[p].total = r.total
  /\ \A r \in Returned :
       /\ \A k \in AddedSince(r) : k \in DOMAIN outbox
       /\ FinalStatus.pending >= Cardinality(AddedSince(r))

====
